---- MODULE Spec2Model ----
(***************************************************************************)
(* Voxel world of Dr-Tesla/minecraft_clone: chunk storage and face-culled  *)
(* meshing (chunk.py), chunk addressing, block edits and streaming         *)
(* (world.py).                                                             *)
(*                                                                         *)
(* Block contents are tracked on Window, a strip of world cells that       *)
(* crosses the boundary between chunks (0,2,0) and (1,2,0); a chunk's      *)
(* block array is the part of its 16x16x16 array that lies in Window and   *)
(* its mesh holds the faces between two tracked cells.  The code decides   *)
(* every cell and every face from that cell and its face neighbour alone,  *)
(* so the tracked part evolves exactly as it does in the full arrays.      *)
(* The chunk map, the pending queue and the streaming constants are        *)
(* modelled in full.                                                       *)
(***************************************************************************)
EXTENDS Integers, Sequences, FiniteSets, TLC

VARIABLES
    chunks,                 \* World.chunks: chunk coordinate -> Chunk
    last_player_chunk,      \* World._last_player_chunk (NoChunk is None)
    chunk_load_queue,       \* World._chunk_load_queue
    initial_load_complete,  \* World._initial_load_complete
    height,                 \* noise.get_terrain_height on the tracked columns
    tree_sites,             \* chunk coordinates whose decoration pass places a tree
    crashed,                \* an exception left a handler: the program has ended
    calls,                  \* load_chunks_around calls made so far
    late_generated,         \* chunks generated by the calls after the first
    edits,                  \* World.set_block and Chunk.set_block calls made so far
    last_op                 \* the last operation, its arguments and its results

vars == <<chunks, last_player_chunk, chunk_load_queue, initial_load_complete,
          height, tree_sites, crashed, calls, late_generated, edits, last_op>>

world_vars == <<chunks, last_player_chunk, chunk_load_queue, initial_load_complete>>

env_vars == <<height, tree_sites>>

----------------------------------------------------------------------------
(* Program constants *)

CHUNK_SIZE == 16

RENDER_DISTANCE == 3

VERTICAL_DISTANCE == 2

chunks_per_frame == 2

BASE_HEIGHT == 32

DIRT_BAND == 3

(* voxel.BlockType *)
AIR == 0

GRASS == 1

DIRT == 2

STONE == 3

BlockType == {AIR, GRASS, DIRT, STONE}

\* the members of voxel.BlockType by name
BlockTypeMembers == [AIR |-> AIR, GRASS |-> GRASS, DIRT |-> DIRT, STONE |-> STONE]

\* the member names the program writes into a chunk: the column fill and the
\* tree placement of World, the block placement of Player
KindsWritten == {"GRASS", "DIRT", "STONE", "WOOD", "LEAVES"}

\* voxel.ATLAS_WIDTH
ATLAS_WIDTH == 4

(* voxel.Face *)
TOP == 0

BOTTOM == 1

FRONT == 2

BACK == 3

LEFT == 4

RIGHT == 5

Face == {TOP, BOTTOM, FRONT, BACK, LEFT, RIGHT}

FACE_DIRECTIONS == [f \in Face |->
    CASE f = TOP    -> <<0, 1, 0>>
      [] f = BOTTOM -> <<0, -1, 0>>
      [] f = FRONT  -> <<0, 0, 1>>
      [] f = BACK   -> <<0, 0, -1>>
      [] f = LEFT   -> <<-1, 0, 0>>
      [] f = RIGHT  -> <<1, 0, 0>>]

\* voxel.FACE_VERTICES: the four corners of each face of the unit cube
FACE_VERTICES ==
    [f \in Face |->
        CASE f = TOP    -> <<<<0, 1, 0>>, <<1, 1, 0>>, <<1, 1, 1>>, <<0, 1, 1>>>>
          [] f = BOTTOM -> <<<<0, 0, 1>>, <<1, 0, 1>>, <<1, 0, 0>>, <<0, 0, 0>>>>
          [] f = FRONT  -> <<<<0, 0, 1>>, <<0, 1, 1>>, <<1, 1, 1>>, <<1, 0, 1>>>>
          [] f = BACK   -> <<<<1, 0, 0>>, <<1, 1, 0>>, <<0, 1, 0>>, <<0, 0, 0>>>>
          [] f = LEFT   -> <<<<0, 0, 0>>, <<0, 1, 0>>, <<0, 1, 1>>, <<0, 0, 1>>>>
          [] f = RIGHT  -> <<<<1, 0, 1>>, <<1, 1, 1>>, <<1, 1, 0>>, <<1, 0, 0>>>>]

\* voxel.QUAD_INDICES
QUAD_INDICES == <<0, 1, 2, 0, 2, 3>>

\* voxel.BLOCK_TEXTURES: the atlas slot of each face of each solid kind
BLOCK_TEXTURES ==
    [b \in {GRASS, DIRT, STONE} |->
        [f \in Face |->
            CASE b = GRASS -> (IF f = TOP THEN 0 ELSE IF f = BOTTOM THEN 2 ELSE 1)
              [] b = DIRT  -> 2
              [] b = STONE -> 3]]

\* voxel.get_block_uvs: (u_min, v_min, u_max, v_max), u in units of one atlas
\* slot, that is 1/ATLAS_WIDTH
get_block_uvs(block_type, face) ==
    IF block_type = AIR THEN <<0, 0, 0, 0>>
    ELSE LET texture_index == BLOCK_TEXTURES[block_type][face]
         IN  <<texture_index, 0, texture_index + 1, 1>>

----------------------------------------------------------------------------
(* Bounds of the model *)

\* Window reaches WinHalf cells to each side of the chunk boundary x = 16.
WinHalf == 2

\* Terrain heights of the tracked columns lie in BASE_HEIGHT..BASE_HEIGHT+MaxRelief.
MaxRelief == 1

\* Focus positions are given in units of 1/FocusScale block.
FocusScale == 2

\* load_chunks_around calls per behaviour of Spec.
MaxCalls == 2

\* World.set_block calls per behaviour of Spec.
MaxEdits == 1

\* In SpecStream the player moves during the first MaxMoves frames and then
\* stands still; frames are counted up to MaxFrames.
MaxMoves == 5

MaxFrames == 45

\* Coordinates -MaxCoord..MaxCoord are converted in SpecCoord.
MaxCoord == 40

----------------------------------------------------------------------------
(* Coordinates: chunk.py *)

Add3(a, b) == <<a[1] + b[1], a[2] + b[2], a[3] + b[3]>>

\* a variant that cuts toward zero, as int(w / CHUNK_SIZE) would
world_to_chunk_pos_trunc(world_x, world_y, world_z) ==
    LET Cut(w) == IF w >= 0 THEN w \div CHUNK_SIZE ELSE -((-w) \div CHUNK_SIZE)
    IN  <<Cut(world_x), Cut(world_y), Cut(world_z)>>

\* math.floor(w / CHUNK_SIZE): \div floors toward negative infinity
world_to_chunk_pos(world_x, world_y, world_z) ==
    <<world_x \div CHUNK_SIZE, world_y \div CHUNK_SIZE, world_z \div CHUNK_SIZE>>

\* Python's %: the result has the sign of the divisor
world_to_local_pos(world_x, world_y, world_z) ==
    <<world_x % CHUNK_SIZE, world_y % CHUNK_SIZE, world_z % CHUNK_SIZE>>

ChunkOf(p) == world_to_chunk_pos(p[1], p[2], p[3])

LocalOf(p) == world_to_local_pos(p[1], p[2], p[3])

\* Chunk.__init__: the world position of a chunk's origin, plus a local offset
ToWorld(chunk_pos, local) ==
    <<chunk_pos[1] * CHUNK_SIZE + local[1],
      chunk_pos[2] * CHUNK_SIZE + local[2],
      chunk_pos[3] * CHUNK_SIZE + local[3]>>

InRange(local) ==
    /\ 0 <= local[1] /\ local[1] < CHUNK_SIZE
    /\ 0 <= local[2] /\ local[2] < CHUNK_SIZE
    /\ 0 <= local[3] /\ local[3] < CHUNK_SIZE

----------------------------------------------------------------------------
(* The tracked cells *)

WinXs == (CHUNK_SIZE - WinHalf)..(CHUNK_SIZE - 1 + WinHalf)

WinY == BASE_HEIGHT + 1

WinZ == CHUNK_SIZE \div 2

Window == {<<x, WinY, WinZ>> : x \in WinXs}

WinCols == {<<x, WinZ>> : x \in WinXs}

Heights == BASE_HEIGHT..(BASE_HEIGHT + MaxRelief)

\* Two chunks are tracked whole, with the layer of cells that faces them in
\* each of their six neighbours: one far below the terrain band, where
\* generate_chunk leaves solid stone, and one far above it, where it leaves
\* AIR.
MeshCenters == {<<0, -8, 0>>, <<0, 8, 0>>}

AllLocals == (0..(CHUNK_SIZE - 1)) \X (0..(CHUNK_SIZE - 1)) \X (0..(CHUNK_SIZE - 1))

TrackedCell(q) ==
    \/ ChunkOf(q) \in MeshCenters
    \/ q \in Window
    \/ \E face \in Face : ChunkOf(Add3(q, FACE_DIRECTIONS[face])) \in MeshCenters

\* a tracked whole chunk or one of its six neighbours
NearMeshCenter(chunk_pos) ==
    \/ chunk_pos \in MeshCenters
    \/ \E face \in Face : Add3(chunk_pos, FACE_DIRECTIONS[face]) \in MeshCenters

TrackedLocals(chunk_pos) ==
    IF chunk_pos \in MeshCenters THEN AllLocals
    ELSE IF NearMeshCenter(chunk_pos)
    THEN {l \in AllLocals : TrackedCell(ToWorld(chunk_pos, l))}
    ELSE {LocalOf(p) : p \in {q \in Window : ChunkOf(q) = chunk_pos}}

NoChunk == <<>>

----------------------------------------------------------------------------
(* Chunk: chunk.py *)

\* Entity.model when it is None: no buffers
NoModel == [vertices |-> <<>>, triangles |-> <<>>, uvs |-> <<>>]

\* Chunk.__init__: every block AIR, the mesh not built yet
Chunk(chunk_pos) ==
    [chunk_pos |-> chunk_pos,
     blocks |-> [l \in TrackedLocals(chunk_pos) |-> AIR],
     mesh |-> {},
     model |-> NoModel,
     mesh_dirty |-> TRUE]

\* a variant that marks the chunk dirty before it tests the range
Chunk_set_block_always_dirty(chunk, local, block_type) ==
    [chunk EXCEPT
       !.blocks = IF InRange(local) /\ local \in DOMAIN chunk.blocks
                  THEN [@ EXCEPT ![local] = block_type]
                  ELSE @,
       !.mesh_dirty = TRUE]

\* Chunk.set_block; a write to an untracked cell of the array only marks dirty
Chunk_set_block(chunk, local, block_type) ==
    IF InRange(local)
    THEN [chunk EXCEPT
            !.blocks = IF local \in DOMAIN chunk.blocks
                       THEN [@ EXCEPT ![local] = block_type]
                       ELSE @,
            !.mesh_dirty = TRUE]
    ELSE chunk

\* Chunk.get_block
Chunk_get_block(chunk, local) ==
    IF InRange(local) THEN chunk.blocks[local] ELSE AIR

\* one component of neighbor_chunk_offset in Chunk._get_neighbor_block
NeighborOffset(v) ==
    IF v >= CHUNK_SIZE THEN v \div CHUNK_SIZE
    ELSE IF v < 0 THEN v \div CHUNK_SIZE ELSE 0

\* a variant that never looks into the neighbouring chunk
get_neighbor_block_edge_air(chunk, world_chunks, local) ==
    IF InRange(local) THEN chunk.blocks[local] ELSE AIR

\* Chunk._get_neighbor_block; world_chunks is self.world.chunks
get_neighbor_block(chunk, world_chunks, local) ==
    IF InRange(local) THEN chunk.blocks[local]
    ELSE LET neighbor_chunk_pos ==
                 Add3(chunk.chunk_pos, <<NeighborOffset(local[1]),
                                         NeighborOffset(local[2]),
                                         NeighborOffset(local[3])>>)
         IN  IF neighbor_chunk_pos \notin DOMAIN world_chunks THEN AIR
             ELSE Chunk_get_block(world_chunks[neighbor_chunk_pos],
                                  <<local[1] % CHUNK_SIZE,
                                    local[2] % CHUNK_SIZE,
                                    local[3] % CHUNK_SIZE>>)

\* the faces the model keeps: those whose neighbour cell is tracked too
TrackedFace(chunk_pos, local, face) ==
    \/ chunk_pos \in MeshCenters
    \/ TrackedCell(ToWorld(chunk_pos, Add3(local, FACE_DIRECTIONS[face])))

\* the visibility test of Chunk.generate_mesh for one block and one face
FaceVisible(chunk, world_chunks, local, face) ==
    /\ chunk.blocks[local] # AIR
    /\ get_neighbor_block(chunk, world_chunks, Add3(local, FACE_DIRECTIONS[face])) = AIR

\* every (block, face) pair of a chunk in the order in which the loops of
\* Chunk.generate_mesh reach it: x, then y, then z, then the face
FaceSlots ==
    [j \in 1..(CHUNK_SIZE * CHUNK_SIZE * CHUNK_SIZE * 6) |->
        <<<<(j - 1) \div (6 * CHUNK_SIZE * CHUNK_SIZE),
            ((j - 1) \div (6 * CHUNK_SIZE)) % CHUNK_SIZE,
            ((j - 1) \div 6) % CHUNK_SIZE>>,
          (j - 1) % 6>>]

\* the part of FaceSlots from the first to the last of the x layers xs;
\* the layers outside it hold no tracked cell
SlotsAcross(xs) ==
    LET per_layer == 6 * CHUNK_SIZE * CHUNK_SIZE
        x_lo == CHOOSE x \in xs : \A other \in xs : x <= other
        x_hi == CHOOSE x \in xs : \A other \in xs : x >= other
    IN  SubSeq(FaceSlots, x_lo * per_layer + 1, (x_hi + 1) * per_layer)

\* a variant that advances the running vertex count by three per face
EmitFace_count_by_three(buf, block_type, local, face) ==
    LET uv == get_block_uvs(block_type, face)
    IN  [vertices |-> buf.vertices \o
                        [k \in 1..4 |-> Add3(local, FACE_VERTICES[face][k])],
         triangles |-> buf.triangles \o
                         [k \in 1..6 |-> buf.vertex_count + QUAD_INDICES[k]],
         uvs |-> buf.uvs \o <<<<uv[1], uv[2]>>, <<uv[1], uv[4]>>,
                               <<uv[3], uv[4]>>, <<uv[3], uv[2]>>>>,
         vertex_count |-> buf.vertex_count + 3]

\* the body of "if neighbor_block == BlockType.AIR" for one face: four
\* vertices, six indices from the running vertex count, four UV pairs
EmitFace(buf, block_type, local, face) ==
    LET uv == get_block_uvs(block_type, face)
    IN  [vertices |-> buf.vertices \o
                        [k \in 1..4 |-> Add3(local, FACE_VERTICES[face][k])],
         triangles |-> buf.triangles \o
                         [k \in 1..6 |-> buf.vertex_count + QUAD_INDICES[k]],
         uvs |-> buf.uvs \o <<<<uv[1], uv[2]>>, <<uv[1], uv[4]>>,
                               <<uv[3], uv[4]>>, <<uv[3], uv[2]>>>>,
         vertex_count |-> buf.vertex_count + 4]

RECURSIVE EmitSpan(_, _, _, _, _)
\* what the faces emitted[lo..hi] append, in order, when vertex_count is the
\* running count before the first of them
EmitSpan(vertex_count, blocks, emitted, lo, hi) ==
    LET start == [vertices |-> <<>>, triangles |-> <<>>, uvs |-> <<>>,
                  vertex_count |-> vertex_count]
    IN  IF lo > hi THEN start
        ELSE IF lo = hi
        THEN EmitFace(start, blocks[emitted[lo][1]], emitted[lo][1], emitted[lo][2])
        ELSE LET mid == (lo + hi) \div 2
                 left == EmitSpan(vertex_count, blocks, emitted, lo, mid)
                 right == EmitSpan(left.vertex_count, blocks, emitted, mid + 1, hi)
             IN  [vertices |-> left.vertices \o right.vertices,
                  triangles |-> left.triangles \o right.triangles,
                  uvs |-> left.uvs \o right.uvs,
                  vertex_count |-> right.vertex_count]

\* Chunk.generate_mesh: mesh is the set of emitted (block, face) pairs,
\* model the buffers handed to Mesh (NoModel when there is no vertex)
generate_mesh(chunk, world_chunks) ==
    IF ~chunk.mesh_dirty THEN chunk
    ELSE LET Emits(lf) ==
                 /\ lf[1] \in DOMAIN chunk.blocks
                 /\ chunk.blocks[lf[1]] # AIR
                 /\ TrackedFace(chunk.chunk_pos, lf[1], lf[2])
                 /\ FaceVisible(chunk, world_chunks, lf[1], lf[2])
             emitted == IF DOMAIN chunk.blocks = {} THEN <<>>
                        ELSE SelectSeq(SlotsAcross({l[1] : l \in DOMAIN chunk.blocks}),
                                       Emits)
             buf == EmitSpan(0, chunk.blocks, emitted, 1, Len(emitted))
         IN  [chunk EXCEPT
                !.mesh = {emitted[i] : i \in 1..Len(emitted)},
                !.model = IF buf.vertices # <<>>
                          THEN [vertices |-> buf.vertices,
                                triangles |-> buf.triangles,
                                uvs |-> buf.uvs]
                          ELSE NoModel,
                !.mesh_dirty = FALSE]

\* Chunk.rebuild_mesh
rebuild_mesh(chunk, world_chunks) ==
    generate_mesh([chunk EXCEPT !.mesh_dirty = TRUE], world_chunks)

----------------------------------------------------------------------------
(* World: block access and edits, world.py *)

\* a variant that reads an unloaded chunk as solid
World_get_block_unloaded_solid(world_chunks, p) ==
    LET chunk_pos == ChunkOf(p)
    IN  IF chunk_pos \notin DOMAIN world_chunks THEN STONE
        ELSE Chunk_get_block(world_chunks[chunk_pos], LocalOf(p))

\* World.get_block
World_get_block(world_chunks, p) ==
    LET chunk_pos == ChunkOf(p)
    IN  IF chunk_pos \notin DOMAIN world_chunks THEN AIR
        ELSE Chunk_get_block(world_chunks[chunk_pos], LocalOf(p))

\* a variant that looks at the low end of each axis only
neighbors_to_rebuild_low_only(p, local_pos) ==
    (IF local_pos[1] = 0 THEN <<ChunkOf(<<p[1] - 1, p[2], p[3]>>)>> ELSE <<>>)
    \o
    (IF local_pos[2] = 0 THEN <<ChunkOf(<<p[1], p[2] - 1, p[3]>>)>> ELSE <<>>)
    \o
    (IF local_pos[3] = 0 THEN <<ChunkOf(<<p[1], p[2], p[3] - 1>>)>> ELSE <<>>)

\* neighbors_to_rebuild of World._rebuild_neighbor_chunks_if_needed
neighbors_to_rebuild(p, local_pos) ==
    (IF local_pos[1] = 0 THEN <<ChunkOf(<<p[1] - 1, p[2], p[3]>>)>>
     ELSE IF local_pos[1] = CHUNK_SIZE - 1 THEN <<ChunkOf(<<p[1] + 1, p[2], p[3]>>)>>
     ELSE <<>>)
    \o
    (IF local_pos[2] = 0 THEN <<ChunkOf(<<p[1], p[2] - 1, p[3]>>)>>
     ELSE IF local_pos[2] = CHUNK_SIZE - 1 THEN <<ChunkOf(<<p[1], p[2] + 1, p[3]>>)>>
     ELSE <<>>)
    \o
    (IF local_pos[3] = 0 THEN <<ChunkOf(<<p[1], p[2], p[3] - 1>>)>>
     ELSE IF local_pos[3] = CHUNK_SIZE - 1 THEN <<ChunkOf(<<p[1], p[2], p[3] + 1>>)>>
     ELSE <<>>)

RECURSIVE RebuildEach(_, _)
\* the loop that ends World._rebuild_neighbor_chunks_if_needed
RebuildEach(world_chunks, positions) ==
    IF positions = <<>> THEN world_chunks
    ELSE LET neighbor_pos == Head(positions)
         IN  IF neighbor_pos \in DOMAIN world_chunks
             THEN RebuildEach([world_chunks EXCEPT
                                 ![neighbor_pos] = rebuild_mesh(@, world_chunks)],
                              Tail(positions))
             ELSE RebuildEach(world_chunks, Tail(positions))

\* a variant that leaves the owning chunk's mesh to a later rebuild
World_set_block_no_rebuild(world_chunks, p, block_type) ==
    LET chunk_pos == ChunkOf(p)
    IN  IF chunk_pos \notin DOMAIN world_chunks
        THEN [ok |-> FALSE, chunks |-> world_chunks]
        ELSE LET local_pos == LocalOf(p)
                 written == [world_chunks EXCEPT
                               ![chunk_pos] = Chunk_set_block(@, local_pos, block_type)]
             IN  [ok |-> TRUE,
                  chunks |-> RebuildEach(written, neighbors_to_rebuild(p, local_pos))]

\* World.set_block: its return value and the chunk map it leaves
World_set_block(world_chunks, p, block_type) ==
    LET chunk_pos == ChunkOf(p)
    IN  IF chunk_pos \notin DOMAIN world_chunks
        THEN [ok |-> FALSE, chunks |-> world_chunks]
        ELSE LET local_pos == LocalOf(p)
                 written == [world_chunks EXCEPT
                               ![chunk_pos] = Chunk_set_block(@, local_pos, block_type)]
                 rebuilt == [written EXCEPT
                               ![chunk_pos] = rebuild_mesh(@, written)]
             IN  [ok |-> TRUE,
                  chunks |-> RebuildEach(rebuilt, neighbors_to_rebuild(p, local_pos))]

----------------------------------------------------------------------------
(* World: raycast, world.py *)

\* A ray parameter t: float('inf') or a finite value.  The direction is an
\* integer vector d; World.raycast_block normalises it, which multiplies
\* every t by the length of d and leaves their order as it is.  A finite t
\* is held for the vector d itself, as the integer t * FocusScale *
\* TScale(d).
TInf == [inf |-> TRUE, v |-> 0]

TFin(v) == [inf |-> FALSE, v |-> v]

\* a < b on floats
TLess(a, b) == ~a.inf /\ (b.inf \/ a.v < b.v)

\* a + b on floats
TPlus(a, b) == IF a.inf \/ b.inf THEN TInf ELSE TFin(a.v + b.v)

Abs(v) == IF v < 0 THEN -v ELSE v

\* a common multiple of the non-zero components of the direction
TScale(direction) ==
    LET m(i) == IF direction[i] = 0 THEN 1 ELSE Abs(direction[i])
    IN  m(1) * m(2) * m(3)

\* int(math.floor(origin.x)), origin.x in units of 1/FocusScale
floor_origin(origin) ==
    <<origin[1] \div FocusScale, origin[2] \div FocusScale, origin[3] \div FocusScale>>

\* step_x = 1 if direction.x >= 0 else -1
step_of(d) == IF d >= 0 THEN 1 ELSE -1

\* a variant that gives an axis the ray does not move along a first
\* crossing at t = 0
t_max_of_zero_finite(voxel, origin, d, scale) ==
    IF d # 0
    THEN TFin((((voxel + (IF step_of(d) > 0 THEN 1 ELSE 0)) * FocusScale - origin)
               * step_of(d)) * (scale \div Abs(d)))
    ELSE TFin(0)

\* t_max_x: the distance to the first voxel boundary on one axis
t_max_of(voxel, origin, d, scale) ==
    IF d # 0
    THEN TFin((((voxel + (IF step_of(d) > 0 THEN 1 ELSE 0)) * FocusScale - origin)
               * step_of(d)) * (scale \div Abs(d)))
    ELSE TInf

\* t_delta_x: the distance between two voxel boundaries on one axis
t_delta_of(d, scale) ==
    IF d # 0 THEN TFin(FocusScale * (scale \div Abs(d))) ELSE TInf

\* traveled < max_distance, traveled measured along the normalised direction
TraveledBelow(traveled, direction, max_distance) ==
    /\ ~traveled.inf
    /\ traveled.v * traveled.v
         * (direction[1] * direction[1] + direction[2] * direction[2]
            + direction[3] * direction[3])
       < (max_distance * FocusScale * TScale(direction))
         * (max_distance * FocusScale * TScale(direction))

\* the branch of "Step to next voxel" that is taken
step_axis(t_max) ==
    IF TLess(t_max[1], t_max[2]) /\ TLess(t_max[1], t_max[3]) THEN 1
    ELSE IF TLess(t_max[2], t_max[3]) THEN 2
    ELSE 3

RECURSIVE RayWalk(_, _, _, _, _)
\* the while loop of World.raycast_block; cur holds the loop variables, the
\* voxels read through get_block, when each was entered, the axes stepped
\* and the t_max values each step chose from
RayWalk(world_chunks, direction, max_distance, t_delta, cur) ==
    IF ~TraveledBelow(cur.traveled, direction, max_distance)
    THEN [found |-> FALSE, hit |-> cur.voxel, previous |-> cur.prev,
          traveled |-> cur.traveled, reads |-> cur.reads,
          entered |-> cur.entered, axes |-> cur.axes, t_before |-> cur.t_before]
    ELSE IF World_get_block(world_chunks, cur.voxel) # AIR
    THEN [found |-> TRUE, hit |-> cur.voxel, previous |-> cur.prev,
          traveled |-> cur.traveled, reads |-> Append(cur.reads, cur.voxel),
          entered |-> Append(cur.entered, cur.traveled.v), axes |-> cur.axes,
          t_before |-> cur.t_before]
    ELSE LET axis == step_axis(cur.t_max)
         IN  RayWalk(world_chunks, direction, max_distance, t_delta,
                     [voxel |-> [cur.voxel EXCEPT ![axis] = @ + step_of(direction[axis])],
                      prev |-> cur.voxel,
                      traveled |-> cur.t_max[axis],
                      t_max |-> [cur.t_max EXCEPT ![axis] = TPlus(@, t_delta[axis])],
                      reads |-> Append(cur.reads, cur.voxel),
                      entered |-> Append(cur.entered, cur.traveled.v),
                      axes |-> Append(cur.axes, axis),
                      t_before |-> Append(cur.t_before, cur.t_max)])

\* World.raycast_block: found is FALSE for None
World_raycast_block(world_chunks, origin, direction, max_distance) ==
    LET voxel == floor_origin(origin)
        scale == TScale(direction)
        t_max == [i \in 1..3 |-> t_max_of(voxel[i], origin[i], direction[i], scale)]
        t_delta == [i \in 1..3 |-> t_delta_of(direction[i], scale)]
    IN  IF direction = <<0, 0, 0>>
        THEN [found |-> FALSE, hit |-> voxel, previous |-> voxel,
              traveled |-> TFin(0), reads |-> <<>>, entered |-> <<>>,
              axes |-> <<>>, t_before |-> <<>>,
              t_max |-> t_max, t_delta |-> t_delta]
        ELSE LET walk == RayWalk(world_chunks, direction, max_distance, t_delta,
                                 [voxel |-> voxel, prev |-> voxel, traveled |-> TFin(0),
                                  t_max |-> t_max, reads |-> <<>>, entered |-> <<>>,
                                  axes |-> <<>>, t_before |-> <<>>])
             IN  [found |-> walk.found, hit |-> walk.hit, previous |-> walk.previous,
                  traveled |-> walk.traveled, reads |-> walk.reads,
                  entered |-> walk.entered, axes |-> walk.axes,
                  t_before |-> walk.t_before,
                  t_max |-> t_max, t_delta |-> t_delta]

----------------------------------------------------------------------------
(* World: terrain generation, world.py *)

\* noise.get_terrain_height: a fixed function of the column, unknown to the
\* model.  Off the tracked columns the tracked cells lie far below or far
\* above every height it can return, so any one of them gives their blocks.
get_terrain_height(world_x, world_z) ==
    IF <<world_x, world_z>> \in DOMAIN height
    THEN height[<<world_x, world_z>>]
    ELSE BASE_HEIGHT

\* a variant whose dirt band is four cells deep
TerrainBlock_band_of_four(world_y, surface_height) ==
    IF world_y > surface_height THEN AIR
    ELSE IF world_y = surface_height THEN GRASS
    ELSE IF world_y >= surface_height - (DIRT_BAND + 1) THEN DIRT
    ELSE STONE

\* the column fill of World.generate_chunk
TerrainBlock(world_y, surface_height) ==
    IF world_y > surface_height THEN AIR
    ELSE IF world_y = surface_height THEN GRASS
    ELSE IF world_y >= surface_height - DIRT_BAND THEN DIRT
    ELSE STONE

\* World._generate_trees reaches World._place_tree for this chunk.  Its
\* first trunk cell evaluates BlockType.WOOD, which voxel.BlockType does
\* not define: AttributeError.
PlacesTree(chunk_pos) == chunk_pos \in tree_sites

\* World._place_tree: the first trunk write raises before Chunk.set_block is
\* called, so no cell is written
place_tree(chunk) ==
    [raised |-> TRUE, written |-> <<>>, chunk |-> chunk]

\* World._generate_trees: started says that an attempt passed the room and
\* GRASS tests and the random draw, and so reached _place_tree
generate_trees(chunk, chunk_pos) ==
    IF PlacesTree(chunk_pos)
    THEN LET tree == place_tree(chunk)
         IN  [started |-> TRUE, raised |-> tree.raised, written |-> tree.written,
              chunk |-> tree.chunk]
    ELSE [started |-> FALSE, raised |-> FALSE, written |-> <<>>, chunk |-> chunk]

\* the column fill of World.generate_chunk for a whole chunk
fill_terrain(chunk) ==
    [chunk EXCEPT
       !.blocks = [l \in DOMAIN chunk.blocks |->
                     TerrainBlock(chunk.chunk_pos[2] * CHUNK_SIZE + l[2],
                                  get_terrain_height(
                                      chunk.chunk_pos[1] * CHUNK_SIZE + l[1],
                                      chunk.chunk_pos[3] * CHUNK_SIZE + l[3]))],
       !.mesh_dirty = TRUE]

\* a variant that leaves a chunk empty when the chunk west of it is loaded
generate_chunk_sees_loaded(world_chunks, chunk_pos) ==
    LET filled == IF Add3(chunk_pos, <<-1, 0, 0>>) \in DOMAIN world_chunks
                  THEN [Chunk(chunk_pos) EXCEPT !.mesh_dirty = TRUE]
                  ELSE fill_terrain(Chunk(chunk_pos))
        trees == generate_trees(filled, chunk_pos)
    IN  [raised |-> trees.raised,
         chunk |-> IF trees.raised THEN trees.chunk
                   ELSE generate_mesh(trees.chunk, world_chunks),
         decor |-> [started |-> trees.started, placed |-> trees.started /\ ~trees.raised,
                    written |-> trees.written]]

\* World.generate_chunk: the chunk, or raised when the decoration pass
\* raises; decor is what the decoration pass did
generate_chunk(world_chunks, chunk_pos) ==
    LET filled == fill_terrain(Chunk(chunk_pos))
        trees == generate_trees(filled, chunk_pos)
    IN  [raised |-> trees.raised,
         chunk |-> IF trees.raised THEN trees.chunk
                   ELSE generate_mesh(trees.chunk, world_chunks),
         decor |-> [started |-> trees.started, placed |-> trees.started /\ ~trees.raised,
                    written |-> trees.written]]

----------------------------------------------------------------------------
(* World: streaming, world.py *)

\* int(center_x): a float, here in units of 1/FocusScale, cut toward zero
py_int(v) == IF v >= 0 THEN v \div FocusScale ELSE -((-v) \div FocusScale)

\* center_chunk of World.load_chunks_around
center_chunk_of(center) ==
    world_to_chunk_pos(py_int(center[1]), py_int(center[2]), py_int(center[3]))

\* chunks_to_load of World.load_chunks_around
chunks_to_load(center_chunk) ==
    {<<center_chunk[1] + dx, center_chunk[2] + dy, center_chunk[3] + dz>> :
        dx \in (-RENDER_DISTANCE)..RENDER_DISTANCE,
        dy \in (-VERTICAL_DISTANCE)..VERTICAL_DISTANCE,
        dz \in (-RENDER_DISTANCE)..RENDER_DISTANCE}

BoxSide == 2 * RENDER_DISTANCE + 1

BoxLevels == 2 * VERTICAL_DISTANCE + 1

BoxCount == BoxSide * BoxLevels * BoxSide

\* the offsets in the order the three loops add them to chunks_to_load
BoxOffsets ==
    [i \in 1..BoxCount |->
        <<((i - 1) \div (BoxLevels * BoxSide)) - RENDER_DISTANCE,
          (((i - 1) \div BoxSide) % BoxLevels) - VERTICAL_DISTANCE,
          ((i - 1) % BoxSide) - RENDER_DISTANCE>>]

\* The order in which "for pos in chunks_to_load" visits the set is not
\* fixed by the language: the order of insertion, or its reverse.
IterOrders == {"asc", "desc"}

IterSeq(center_chunk, order) ==
    [i \in 1..BoxCount |->
        Add3(center_chunk, BoxOffsets[IF order = "asc" THEN i ELSE BoxCount + 1 - i])]

SeqRange(q) == {q[i] : i \in 1..Len(q)}

\* "Unload chunks that are too far": the chunk map without them
Unload(world_chunks, required) ==
    [pos \in {c \in DOMAIN world_chunks : c \in required} |-> world_chunks[pos]]

\* a variant that queues a required coordinate whether or not it is queued
Enqueue_no_queued_test(world_chunks, queue, center_chunk, order) ==
    LET loaded == DOMAIN world_chunks
        Wanted(pos) == pos \notin loaded
    IN  queue \o SelectSeq(IterSeq(center_chunk, order), Wanted)

\* a variant that queues nothing while entries are pending
Enqueue_only_when_empty(world_chunks, queue, center_chunk, order) ==
    LET loaded == DOMAIN world_chunks
        Wanted(pos) == pos \notin loaded /\ queue = <<>>
    IN  queue \o SelectSeq(IterSeq(center_chunk, order), Wanted)

\* "Queue chunks that need to be loaded": the queue after the loop
Enqueue(world_chunks, queue, center_chunk, order) ==
    LET queued == SeqRange(queue)
        loaded == DOMAIN world_chunks
        Wanted(pos) == pos \notin loaded /\ pos \notin queued
    IN  queue \o SelectSeq(IterSeq(center_chunk, order), Wanted)

\* a variant whose cap test is "chunks_loaded <= chunks_per_frame"
DrainOne_cap_off_by_one(st, queue, i, capped) ==
    IF st.done THEN st
    ELSE IF capped /\ st.generated > chunks_per_frame
    THEN [st EXCEPT !.done = TRUE]
    ELSE LET pos == queue[i]
         IN  IF pos \in DOMAIN st.chunks
             THEN [st EXCEPT !.popped = i]
             ELSE LET made == generate_chunk(st.chunks, pos)
                  IN  IF made.raised
                      THEN [st EXCEPT !.popped = i, !.done = TRUE, !.raised = TRUE]
                      ELSE [st EXCEPT !.popped = i,
                                      !.chunks = st.chunks @@ (pos :> made.chunk),
                                      !.generated = st.generated + 1]

\* One pass of a drain loop of World.load_chunks_around, at the queue's
\* entry i; capped is FALSE for the first, synchronous load.  st.popped
\* counts the entries popped, st.generated is chunks_loaded, st.done says
\* that the loop has ended, st.raised that generate_chunk raised.
DrainOne(st, queue, i, capped) ==
    IF st.done THEN st
    ELSE IF capped /\ st.generated >= chunks_per_frame
    THEN [st EXCEPT !.done = TRUE]
    ELSE LET pos == queue[i]
         IN  IF pos \in DOMAIN st.chunks
             THEN [st EXCEPT !.popped = i]
             ELSE LET made == generate_chunk(st.chunks, pos)
                  IN  IF made.raised
                      THEN [st EXCEPT !.popped = i, !.done = TRUE, !.raised = TRUE]
                      ELSE [st EXCEPT !.popped = i,
                                      !.chunks = st.chunks @@ (pos :> made.chunk),
                                      !.generated = st.generated + 1]

RECURSIVE DrainSpan(_, _, _, _, _)
\* the passes at entries lo..hi, in order
DrainSpan(st, queue, lo, hi, capped) ==
    IF st.done \/ lo > hi THEN st
    ELSE IF lo = hi THEN DrainOne(st, queue, lo, capped)
    ELSE LET mid == (lo + hi) \div 2
             left == DrainSpan(st, queue, lo, mid, capped)
         IN  DrainSpan(left, queue, mid + 1, hi, capped)

\* a variant that caps the first load too
Drain_always_capped(world_chunks, queue, capped) ==
    LET st == DrainSpan([chunks |-> world_chunks, popped |-> 0, generated |-> 0,
                         done |-> FALSE, raised |-> FALSE],
                        queue, 1, Len(queue), TRUE)
    IN  [chunks |-> st.chunks,
         queue |-> SubSeq(queue, st.popped + 1, Len(queue)),
         generated |-> st.generated,
         raised |-> st.raised]

\* a whole drain loop: "while self._chunk_load_queue ..."
Drain(world_chunks, queue, capped) ==
    LET st == DrainSpan([chunks |-> world_chunks, popped |-> 0, generated |-> 0,
                         done |-> FALSE, raised |-> FALSE],
                        queue, 1, Len(queue), capped)
    IN  [chunks |-> st.chunks,
         queue |-> SubSeq(queue, st.popped + 1, Len(queue)),
         generated |-> st.generated,
         raised |-> st.raised]

\* a variant that returns early only when nothing but the box is loaded
NothingToDo_exact(world_chunks, queue, required, chunk_changed) ==
    /\ ~chunk_changed
    /\ DOMAIN world_chunks = required
    /\ queue = <<>>

\* the early return of World.load_chunks_around
NothingToDo(world_chunks, queue, required, chunk_changed) ==
    /\ ~chunk_changed
    /\ DOMAIN world_chunks # {}
    /\ \A pos \in required : pos \in DOMAIN world_chunks
    /\ queue = <<>>

\* World.load_chunks_around: the state it leaves and what it did
LoadOutcome(world_chunks, last_chunk, queue, load_complete, center, order) ==
    LET center_chunk == center_chunk_of(center)
        chunk_changed == center_chunk # last_chunk
        required == chunks_to_load(center_chunk)
    IN  IF NothingToDo(world_chunks, queue, required, chunk_changed)
        THEN [chunks |-> world_chunks, queue |-> queue, load_complete |-> load_complete,
              center_chunk |-> center_chunk, chunk_changed |-> chunk_changed,
              noop |-> TRUE, raised |-> FALSE, evicted |-> {},
              generated |-> 0, popped |-> 0]
        ELSE LET kept == Unload(world_chunks, required)
                 queued == Enqueue(kept, queue, center_chunk, order)
                 drained == Drain(kept, queued, load_complete)
             IN  [chunks |-> drained.chunks, queue |-> drained.queue,
                  load_complete |-> IF drained.raised THEN load_complete ELSE TRUE,
                  center_chunk |-> center_chunk, chunk_changed |-> chunk_changed,
                  noop |-> FALSE, raised |-> drained.raised,
                  evicted |-> DOMAIN world_chunks \ DOMAIN kept,
                  generated |-> drained.generated,
                  popped |-> Len(queued) - Len(drained.queue)]

----------------------------------------------------------------------------
(* The operations as actions *)

NoPos == <<0, 0, 0>>

\* no decoration pass
NoDecor == [started |-> FALSE, placed |-> FALSE, written |-> <<>>]

\* no raycast result
NoRay ==
    [found |-> FALSE, hit |-> NoPos, previous |-> NoPos, traveled |-> TFin(0),
     reads |-> <<>>, entered |-> <<>>, axes |-> <<>>, t_before |-> <<>>,
     t_max |-> <<TInf, TInf, TInf>>, t_delta |-> <<TInf, TInf, TInf>>]

OpRecord(op) ==
    [op |-> op, pos |-> NoPos, kind |-> AIR, ok |-> TRUE,
     direction |-> NoPos, max_distance |-> 0, ray |-> NoRay,
     blocks |-> <<>>, decor |-> NoDecor,
     chunk_pos |-> NoPos, local_pos |-> NoPos,
     first |-> FALSE, chunk_changed |-> FALSE, noop |-> FALSE,
     generated |-> 0, popped |-> 0, evicted |-> 0, queued_before |-> 0]

\* the effect of one World.load_chunks_around(center) call on the world
LoadStep(center, order) ==
    /\ ~crashed
    /\ \E out \in {LoadOutcome(chunks, last_player_chunk, chunk_load_queue,
                               initial_load_complete, center, order)} :
        /\ chunks' = out.chunks
        /\ last_player_chunk' = out.center_chunk
        /\ chunk_load_queue' = out.queue
        /\ initial_load_complete' = out.load_complete
        /\ crashed' = out.raised
        /\ late_generated' = IF initial_load_complete
                             THEN late_generated + out.generated
                             ELSE late_generated
        /\ last_op' = [OpRecord("load") EXCEPT
                         !.pos = center, !.ok = ~out.raised,
                         !.chunk_pos = out.center_chunk,
                         !.first = ~initial_load_complete,
                         !.chunk_changed = out.chunk_changed,
                         !.noop = out.noop,
                         !.generated = out.generated,
                         !.popped = out.popped,
                         !.evicted = Cardinality(out.evicted),
                         !.queued_before = Len(chunk_load_queue)]
        /\ UNCHANGED env_vars

\* main.update: one frame's streaming call; the focus chunk may change
\* during the first MaxMoves frames
stream_around(center, order) ==
    /\ calls < MaxMoves \/ center_chunk_of(center) = last_player_chunk
    /\ LoadStep(center, order)
    /\ calls' = IF calls < MaxFrames THEN calls + 1 ELSE calls
    /\ UNCHANGED edits

\* World.load_chunks_around, counted
load_chunks_around(center, order) ==
    /\ calls < MaxCalls
    /\ LoadStep(center, order)
    /\ calls' = calls + 1
    /\ UNCHANGED edits

\* World.set_block(p, block_type)
set_block(p, block_type) ==
    /\ ~crashed
    /\ edits < MaxEdits
    /\ \E out \in {World_set_block(chunks, p, block_type)} :
        /\ chunks' = out.chunks
        /\ edits' = edits + 1
        /\ last_op' = [OpRecord("set_block") EXCEPT
                         !.pos = p, !.kind = block_type, !.ok = out.ok,
                         !.chunk_pos = ChunkOf(p), !.local_pos = LocalOf(p)]
        /\ UNCHANGED <<last_player_chunk, chunk_load_queue, initial_load_complete,
                       crashed, calls, late_generated, height, tree_sites>>

\* World.get_block(p)
get_block(p) ==
    /\ ~crashed
    /\ last_op' = [OpRecord("get_block") EXCEPT
                     !.pos = p, !.kind = World_get_block(chunks, p),
                     !.chunk_pos = ChunkOf(p), !.local_pos = LocalOf(p)]
    /\ UNCHANGED <<world_vars, env_vars, crashed, calls, late_generated, edits>>

\* Chunk.set_block(local, block_type), called on a loaded chunk directly
chunk_set_block(chunk_pos, local, block_type) ==
    /\ ~crashed
    /\ edits < MaxEdits
    /\ chunk_pos \in DOMAIN chunks
    /\ chunks' = [chunks EXCEPT ![chunk_pos] = Chunk_set_block(@, local, block_type)]
    /\ edits' = edits + 1
    /\ last_op' = [OpRecord("Chunk.set_block") EXCEPT
                     !.kind = block_type, !.chunk_pos = chunk_pos, !.local_pos = local]
    /\ UNCHANGED <<last_player_chunk, chunk_load_queue, initial_load_complete,
                   crashed, calls, late_generated, height, tree_sites>>

\* Chunk.get_block(local), called on a loaded chunk directly
chunk_get_block(chunk_pos, local) ==
    /\ ~crashed
    /\ chunk_pos \in DOMAIN chunks
    /\ last_op' = [OpRecord("Chunk.get_block") EXCEPT
                     !.kind = Chunk_get_block(chunks[chunk_pos], local),
                     !.chunk_pos = chunk_pos, !.local_pos = local]
    /\ UNCHANGED <<world_vars, env_vars, crashed, calls, late_generated, edits>>

\* World.generate_chunk(chunk_pos) called on its own: the chunk is returned
\* to the caller and not added to the map
generate_chunk_at(chunk_pos) ==
    /\ ~crashed
    /\ \E made \in {generate_chunk(chunks, chunk_pos)} :
          /\ crashed' = made.raised
          /\ last_op' = [OpRecord("generate_chunk") EXCEPT
                           !.chunk_pos = chunk_pos, !.ok = ~made.raised,
                           !.blocks = made.chunk.blocks, !.decor = made.decor]
    /\ UNCHANGED <<world_vars, env_vars, calls, late_generated, edits>>

\* World.raycast_block(origin, direction, max_distance); the world is only
\* read
raycast_block(origin, direction, max_distance) ==
    /\ ~crashed
    /\ last_op' = [OpRecord("raycast_block") EXCEPT
                     !.pos = origin, !.direction = direction,
                     !.max_distance = max_distance,
                     !.ray = World_raycast_block(chunks, origin, direction,
                                                 max_distance)]
    /\ UNCHANGED <<world_vars, env_vars, crashed, calls, late_generated, edits>>

\* world_to_chunk_pos and world_to_local_pos applied to one position
convert(p) ==
    /\ last_op' = [OpRecord("convert") EXCEPT
                     !.pos = p, !.chunk_pos = ChunkOf(p), !.local_pos = LocalOf(p)]
    /\ UNCHANGED <<world_vars, env_vars, crashed, calls, late_generated, edits>>

----------------------------------------------------------------------------
(* Inputs *)

\* a focus position given in blocks
Focus(x, y, z) == <<x * FocusScale, y * FocusScale, z * FocusScale>>

\* main.py: the player starts at (8, 50, 8), in chunk (0, 3, 0)
FocusStart == Focus(8, 50, 8)

\* one chunk further along x
FocusEast == Focus(8 + CHUNK_SIZE, 50, 8)

\* far enough west that chunk (1, 2, 0) is outside the box and (0, 2, 0) inside
FocusWest == Focus(8 - RENDER_DISTANCE * CHUNK_SIZE, 50, 8)

\* the chunks that hold the surface band, where a tree can stand
SurfaceLevel == BASE_HEIGHT \div CHUNK_SIZE

\* Chunk (-3, 2, -2) is where the seeded decoration pass places a tree in
\* the program's own first load.
TreeCandidates == {<<-RENDER_DISTANCE, SurfaceLevel, -2>>}

FreshWorld ==
    /\ chunks = <<>>
    /\ last_player_chunk = NoChunk
    /\ chunk_load_queue = <<>>
    /\ initial_load_complete = FALSE
    /\ crashed = FALSE
    /\ calls = 0
    /\ late_generated = 0
    /\ edits = 0
    /\ last_op = OpRecord("init")

----------------------------------------------------------------------------
(* Specifications *)

\* streaming and edits, a bounded number of each; the two columns at the
\* chunk boundary take every height, the other tracked columns are surface
Init ==
    /\ FreshWorld
    /\ \E west, east \in Heights :
          height = [c \in WinCols |->
                      IF c[1] = CHUNK_SIZE - 1 THEN west
                      ELSE IF c[1] = CHUNK_SIZE THEN east
                      ELSE WinY]
    /\ tree_sites \in SUBSET TreeCandidates

Next ==
    \/ \E center \in {FocusStart, FocusWest}, order \in IterOrders :
          load_chunks_around(center, order)
    \/ \E p \in Window, block_type \in {AIR, DIRT} : set_block(p, block_type)

Spec == Init /\ [][Next]_vars

\* streaming alone over flat tracked terrain, for as many frames as it takes
InitStream ==
    /\ FreshWorld
    /\ height = [c \in WinCols |-> BASE_HEIGHT]
    /\ tree_sites = {}

NextStream ==
    \E center \in {FocusStart, FocusEast}, order \in IterOrders :
        stream_around(center, order)

SpecStream == InitStream /\ [][NextStream]_vars

\* local coordinates outside 0..CHUNK_SIZE-1, one past each end of an axis
OutLocals ==
    {<<CHUNK_SIZE, WinY % CHUNK_SIZE, WinZ>>, <<-1, WinY % CHUNK_SIZE, WinZ>>,
     <<0, -1, WinZ>>, <<0, WinY % CHUNK_SIZE, CHUNK_SIZE>>}

WinChunks == {ChunkOf(p) : p \in Window}

\* block reads and writes through World and through Chunk, on loaded and
\* unloaded chunks, in-range and out-of-range; the tracked cells are the
\* grass surface
InitAccess ==
    /\ FreshWorld
    /\ height = [c \in WinCols |-> WinY]
    /\ tree_sites = {}

NextAccess ==
    \/ \E center \in {FocusStart, FocusWest} : load_chunks_around(center, "asc")
    \/ \E p \in Window : set_block(p, DIRT)
    \/ \E p \in Window : get_block(p)
    \/ \E chunk_pos \in WinChunks :
          \E local \in TrackedLocals(chunk_pos) \cup OutLocals,
             block_type \in {AIR, STONE} :
             chunk_set_block(chunk_pos, local, block_type)
    \/ \E chunk_pos \in WinChunks :
          \E local \in TrackedLocals(chunk_pos) \cup OutLocals :
             chunk_get_block(chunk_pos, local)

SpecAccess == InitAccess /\ [][NextAccess]_vars

\* the example of the docstrings in chunk.py
DocExample == <<17, 5, -3>>

\* the coordinate conversions on every value of one axis in
\* -MaxCoord..MaxCoord, the other axes as in the docstring example
NextCoord ==
    \E w \in (-MaxCoord)..MaxCoord, axis \in 1..3 :
        convert([i \in 1..3 |-> IF i = axis THEN w ELSE DocExample[i]])

SpecCoord == InitStream /\ [][NextCoord]_vars

\* focus x coordinates in units of 1/FocusScale: every position within one
\* block and a fraction of x = 0, and the fractions next to the chunk
\* boundaries at x = -16 and x = 16
FocusXs ==
    ((-FocusScale - 1)..(FocusScale + 1))
    \cup {-(CHUNK_SIZE * FocusScale) - 1, -(CHUNK_SIZE * FocusScale) + 1,
          CHUNK_SIZE * FocusScale - 1, CHUNK_SIZE * FocusScale + 1}

\* streaming calls whose focus lies on either side of x = 0, at whole and at
\* fractional positions, with y and z a fraction below 0 or where the player
\* starts
NextFocus ==
    \E x \in FocusXs, y \in {-1, FocusStart[2]}, z \in {-1, FocusStart[3]} :
        load_chunks_around(<<x, y, z>>, "asc")

SpecFocus == InitStream /\ [][NextFocus]_vars

\* a focus in the middle of the deep tracked chunk (0, -8, 0)
FocusDeep == Focus(8, 8 - 8 * CHUNK_SIZE, 8)

\* a focus in the middle of the high tracked chunk (0, 8, 0)
FocusHigh == Focus(8, 8 + 8 * CHUNK_SIZE, 8)

\* the cells edited in the whole tracked chunks: an inner cell and a cell
\* on the +x boundary of each
MeshCells ==
    {ToWorld(chunk_pos, local) :
        chunk_pos \in MeshCenters, local \in {<<8, 8, 8>>, <<CHUNK_SIZE - 1, 8, 8>>}}

\* streaming around a whole tracked chunk, then an edit in it; every edit
\* rebuilds the mesh of the chunk that owns the cell
NextMesh ==
    \/ \E center \in {FocusDeep, FocusHigh}, order \in IterOrders :
          load_chunks_around(center, order)
    \/ \E p \in MeshCells, block_type \in BlockType \ {DIRT} :
          set_block(p, block_type)

SpecMesh == InitStream /\ [][NextMesh]_vars

\* the cell (8, 8, 8) of the high tracked chunk, and ray origins in it: its
\* middle, and a point on its low x face, its low y face and its low corner
RayCell == ToWorld(<<0, 8, 0>>, <<8, 8, 8>>)

RayOrigins ==
    {<<RayCell[1] * FocusScale + off[1], RayCell[2] * FocusScale + off[2],
       RayCell[3] * FocusScale + off[3]>> :
        off \in {<<FocusScale \div 2, FocusScale \div 2, FocusScale \div 2>>,
                 <<0, FocusScale \div 2, FocusScale \div 2>>,
                 <<FocusScale \div 2, 0, FocusScale \div 2>>,
                 <<0, 0, 0>>}}

\* ray directions before normalisation: none, along each axis, along each
\* diagonal of a plane and of the cube, and oblique ones
RayDirections ==
    {d \in {-1, 0, 1} \X {-1, 0, 1} \X {-1, 0, 1} :
        d[1] >= 0 \/ (d[2] <= 0 /\ d[3] <= 0)}
    \cup {<<2, 1, 0>>, <<-1, 0, 2>>, <<1, 2, 2>>, <<2, -2, 1>>}

\* the reach of the player's picking ray and a shorter one
RayReaches == {3, 6}

\* the example of the raycast docstring and of the design notes, in the
\* local coordinates of the high tracked chunk: from (0.5, 10, 0.5) straight
\* down, the block at (0, 3, 0), the default max_distance
ExampleOrigin ==
    <<FocusScale \div 2, (8 * CHUNK_SIZE + 10) * FocusScale, FocusScale \div 2>>

ExampleBlock == ToWorld(<<0, 8, 0>>, <<0, 3, 0>>)

DefaultReach == 8

\* the cells that get a solid block: the cell the rays start in, the cell
\* two steps along x, the cell diagonally across an edge, the cell
\* diagonally across a corner, and the example's block
RayTargets ==
    {RayCell, Add3(RayCell, <<2, 0, 0>>), Add3(RayCell, <<1, 1, 0>>),
     Add3(RayCell, <<-1, -1, -1>>), ExampleBlock}

\* a world is streamed in around the high tracked chunk and edited, then a
\* ray is cast; the ray changes nothing, so it ends the behaviour
NextRay ==
    /\ last_op.op # "raycast_block"
    /\ \/ load_chunks_around(FocusHigh, "asc")
       \/ \E p \in RayTargets : set_block(p, STONE)
       \/ \E origin \in RayOrigins, direction \in RayDirections,
             max_distance \in RayReaches :
             raycast_block(origin, direction, max_distance)
       \/ \E direction \in {<<0, -1, 0>>, <<0, 0, 0>>},
             max_distance \in {DefaultReach, 6} :
             raycast_block(ExampleOrigin, direction, max_distance)

SpecRay == InitStream /\ [][NextRay]_vars

\* noise.get_terrain_height: height_scale
HEIGHT_SCALE == 16

\* surface heights that put the tracked height WinY in every band of the
\* column fill and on both sides of every threshold: above the surface, at
\* it, first and last dirt cell, first stone cell, and the lowest and
\* highest height the noise can give
TerrainHeights ==
    {BASE_HEIGHT, WinY, WinY + 1, WinY + DIRT_BAND, WinY + DIRT_BAND + 1,
     BASE_HEIGHT + HEIGHT_SCALE}

\* terrain generation: chunks generated by streaming, in either order and
\* around either focus, and by generate_chunk called on its own in the world
\* streaming has left; generate_chunk changes nothing, so it ends the
\* behaviour
InitTerrain ==
    /\ FreshWorld
    /\ \E west, east \in TerrainHeights :
          height = [c \in WinCols |->
                      IF c[1] = CHUNK_SIZE - 1 THEN west
                      ELSE IF c[1] = CHUNK_SIZE THEN east
                      ELSE WinY]
    /\ tree_sites \in SUBSET TreeCandidates

NextTerrain ==
    /\ last_op.op # "generate_chunk"
    /\ \/ \E center \in {FocusStart, FocusWest}, order \in IterOrders :
             load_chunks_around(center, order)
       \/ \E chunk_pos \in WinChunks \cup TreeCandidates :
             generate_chunk_at(chunk_pos)

SpecTerrain == InitTerrain /\ [][NextTerrain]_vars

\* streaming over terrain where the decoration pass may place a tree
InitTrees ==
    /\ FreshWorld
    /\ height = [c \in WinCols |-> BASE_HEIGHT]
    /\ tree_sites \in SUBSET TreeCandidates

\* main.main makes the first load_chunks_around call and the engine runs
\* main.update, which makes the next one, in every frame for as long as the
\* program has not ended with an exception: a frame's call
update ==
    /\ ~crashed
    /\ calls < MaxFrames
    /\ calls' = calls + 1

\* streaming as the engine schedules it: the frames keep coming
SpecStreamFair == InitTrees /\ [][NextStream]_vars /\ WF_calls(update)

----------------------------------------------------------------------------
(* Properties *)

\* what World.get_block says about a face: the block is solid and the
\* block across the face is AIR (an unloaded chunk reads as AIR)
FaceExposed(world_chunks, p, face) ==
    /\ World_get_block(world_chunks, p) # AIR
    /\ World_get_block(world_chunks, Add3(p, FACE_DIRECTIONS[face])) = AIR

\* the tracked faces a chunk's mesh has to hold for the blocks as they are
ExpectedMesh(world_chunks, chunk_pos) ==
    {lf \in TrackedLocals(chunk_pos) \X Face :
        /\ TrackedFace(chunk_pos, lf[1], lf[2])
        /\ FaceExposed(world_chunks, ToWorld(chunk_pos, lf[1]), lf[2])}

MeshCurrent(world_chunks, chunk_pos) ==
    world_chunks[chunk_pos].mesh = ExpectedMesh(world_chunks, chunk_pos)

\* C1: in every state the running program reaches through
\* load_chunks_around and set_block calls, the mesh of every loaded chunk
\* whose dirty flag is clear holds exactly the faces of its non-AIR blocks
\* whose adjacent block, in the chunk or in the loaded neighbour, is AIR.
C1_MeshMatchesBlocks ==
    ~crashed =>
        \A chunk_pos \in DOMAIN chunks :
            ~chunks[chunk_pos].mesh_dirty => MeshCurrent(chunks, chunk_pos)

\* a further call with the focus where it is would take the early return
Steady ==
    /\ last_player_chunk # NoChunk
    /\ NothingToDo(chunks, chunk_load_queue, chunks_to_load(last_player_chunk), FALSE)

\* C2: whenever a further call with the same focus would take the early
\* return, the loaded chunks are exactly the box of 3 chunks in x and z and
\* 2 chunks in y around the focus chunk.
C2_SteadyLoadedIsBox ==
    Steady => DOMAIN chunks = chunks_to_load(last_player_chunk)

\* the face opposite to a face: TOP/BOTTOM, FRONT/BACK, LEFT/RIGHT
Opposite(face) == IF face % 2 = 0 THEN face + 1 ELSE face - 1

\* the faces of the block at p that lie on the boundary of its chunk
BoundaryFaces(p) ==
    {face \in Face : ChunkOf(Add3(p, FACE_DIRECTIONS[face])) # ChunkOf(p)}

\* C3: after a successful set_block on a chunk-boundary cell, the meshes of
\* the owning chunk and of each loaded chunk across that boundary are built
\* against the new block: when both cells across the boundary are solid
\* neither mesh holds the face between them, and when one is AIR the other
\* cell's facing face is in its chunk's mesh.
C3_BoundaryEditRebuildsBoth ==
    (last_op.op = "set_block" /\ last_op.ok) =>
        LET p == last_op.pos
            owner == ChunkOf(p)
        IN  /\ ~chunks[owner].mesh_dirty
            /\ MeshCurrent(chunks, owner)
            /\ \A face \in BoundaryFaces(p) :
                   LET q == Add3(p, FACE_DIRECTIONS[face])
                       other == ChunkOf(q)
                   IN  (other \in DOMAIN chunks /\ q \in Window) =>
                          /\ ~chunks[other].mesh_dirty
                          /\ MeshCurrent(chunks, other)
                          /\ <<LocalOf(p), face>> \in chunks[owner].mesh
                                <=> FaceExposed(chunks, p, face)
                          /\ <<LocalOf(q), Opposite(face)>> \in chunks[other].mesh
                                <=> FaceExposed(chunks, q, Opposite(face))

\* a block was placed on the last cell of chunk (0,2,0) along x while the
\* first cell of the loaded chunk (1,2,0) is solid
C3_Witness ==
    /\ last_op.op = "set_block"
    /\ last_op.ok
    /\ last_op.kind = DIRT
    /\ last_op.local_pos[1] = CHUNK_SIZE - 1
    /\ ChunkOf(Add3(last_op.pos, FACE_DIRECTIONS[RIGHT])) \in DOMAIN chunks
    /\ World_get_block(chunks, Add3(last_op.pos, FACE_DIRECTIONS[RIGHT])) # AIR
    /\ <<last_op.local_pos, RIGHT>> \notin chunks[last_op.chunk_pos].mesh

late_calls == IF calls = 0 THEN 0 ELSE calls - 1

\* C5: a load_chunks_around call after the first generates at most 2 chunks
\* and pops at most 2 queue entries, so N such calls generate at most 2N
\* chunks; when the focus chunk is the previous call's, the queue does not
\* grow and shrinks by at most 2.
C5_CappedDrain ==
    /\ (last_op.op = "load" /\ ~last_op.first) =>
          /\ last_op.generated <= 2
          /\ last_op.popped <= 2
          /\ ~last_op.chunk_changed =>
                /\ Len(chunk_load_queue) <= last_op.queued_before
                /\ last_op.queued_before - Len(chunk_load_queue) <= 2
    /\ calls < MaxFrames => late_generated <= 2 * late_calls

\* a later call with the focus unchanged took two entries off a pending
\* queue and generated two chunks
C5_Witness ==
    /\ last_op.op = "load"
    /\ ~last_op.first
    /\ ~last_op.chunk_changed
    /\ last_op.generated = 2
    /\ last_op.queued_before - Len(chunk_load_queue) = 2
    /\ Len(chunk_load_queue) > 0

\* C6: a load_chunks_around call whose focus chunk is the previous call's,
\* made when every chunk of the required box is loaded and the queue is
\* empty, changes nothing: not the loaded map with its blocks, meshes and
\* dirty flags, not the queue, not the recorded focus chunk; it generates
\* and evicts no chunk.
C6_NoOpCall ==
    [][(/\ last_op'.op = "load"
        /\ last_op'.chunk_pos = last_player_chunk
        /\ chunks_to_load(last_player_chunk) \subseteq DOMAIN chunks
        /\ chunk_load_queue = <<>>)
       => (/\ chunks' = chunks
           /\ chunk_load_queue' = chunk_load_queue
           /\ last_player_chunk' = last_player_chunk
           /\ last_op'.generated = 0
           /\ last_op'.evicted = 0)]_vars

\* a call took the early return while chunks outside its box were loaded
C6_Witness ==
    /\ last_op.op = "load"
    /\ last_op.noop
    /\ last_op.chunk_pos = last_player_chunk
    /\ DOMAIN chunks # chunks_to_load(last_player_chunk)

\* C7: World.set_block(p, k) on a position whose chunk is loaded returns
\* true; afterwards get_block(p) is k, every other position reads as
\* before, the loaded set and the queue are unchanged and the owning
\* chunk's dirty flag is clear.
C7_SetBlockLoaded ==
    [][(last_op'.op = "set_block" /\ ChunkOf(last_op'.pos) \in DOMAIN chunks)
       => (/\ last_op'.ok
           /\ World_get_block(chunks', last_op'.pos) = last_op'.kind
           /\ \A q \in Window \ {last_op'.pos} :
                  World_get_block(chunks', q) = World_get_block(chunks, q)
           /\ DOMAIN chunks' = DOMAIN chunks
           /\ \A c \in DOMAIN chunks \ {ChunkOf(last_op'.pos)} :
                  chunks'[c].blocks = chunks[c].blocks
           /\ chunk_load_queue' = chunk_load_queue
           /\ ~chunks'[ChunkOf(last_op'.pos)].mesh_dirty)]_vars

\* a grass cell of a loaded chunk was dug out and reads AIR
C7_Witness ==
    /\ last_op.op = "set_block"
    /\ last_op.ok
    /\ last_op.kind = AIR
    /\ TerrainBlock(last_op.pos[2],
                    get_terrain_height(last_op.pos[1], last_op.pos[3])) = GRASS
    /\ World_get_block(chunks, last_op.pos) = AIR

\* C8: for a position whose chunk is not loaded, World.get_block returns
\* AIR and World.set_block returns false; neither changes the world, and
\* the chunk is neither created nor queued.
C8_UnloadedAccess ==
    [][(/\ last_op'.op \in {"get_block", "set_block"}
        /\ ChunkOf(last_op'.pos) \notin DOMAIN chunks)
       => (/\ last_op'.op = "get_block" => last_op'.kind = AIR
           /\ last_op'.op = "set_block" => ~last_op'.ok
           /\ UNCHANGED world_vars
           /\ ChunkOf(last_op'.pos) \notin DOMAIN chunks'
           /\ Len(chunk_load_queue') = Len(chunk_load_queue))]_vars

\* set_block was refused on a solid column of a chunk that streaming has
\* evicted while its neighbour stays loaded
C8_Witness ==
    /\ last_op.op = "set_block"
    /\ ~last_op.ok
    /\ last_op.kind = DIRT
    /\ last_op.chunk_pos \notin DOMAIN chunks
    /\ DOMAIN chunks # {}

\* C9: Chunk.get_block returns AIR for a local coordinate outside
\* 0..CHUNK_SIZE-1; Chunk.set_block with such a coordinate changes neither
\* the blocks nor the dirty flag; with a coordinate in range it overwrites
\* the cell, whatever it held, and sets the dirty flag.
C9_ChunkAccessRange ==
    [][/\ (last_op'.op = "Chunk.get_block" /\ ~InRange(last_op'.local_pos))
          => last_op'.kind = AIR
       /\ (last_op'.op = "Chunk.set_block" /\ ~InRange(last_op'.local_pos))
          => chunks' = chunks
       /\ (last_op'.op = "Chunk.set_block" /\ InRange(last_op'.local_pos))
          => LET chunk_pos == last_op'.chunk_pos
                 local == last_op'.local_pos
             IN  /\ chunks'[chunk_pos].blocks[local] = last_op'.kind
                 /\ chunks'[chunk_pos].mesh_dirty
                 /\ \A l \in DOMAIN chunks[chunk_pos].blocks \ {local} :
                        chunks'[chunk_pos].blocks[l] = chunks[chunk_pos].blocks[l]]_vars

\* Chunk.set_block was called one past the last cell along x, on a chunk
\* whose mesh is built
C9_Witness ==
    /\ last_op.op = "Chunk.set_block"
    /\ last_op.local_pos[1] = CHUNK_SIZE
    /\ last_op.kind = STONE
    /\ ~chunks[last_op.chunk_pos].mesh_dirty

\* C10: for every integer w, chunk(w) * 16 + local(w) = w with
\* 0 <= local(w) < 16; w = -3 lies in chunk -1 at local 13.
C10_ChunkLocalRoundTrip ==
    last_op.op \in {"convert", "set_block", "get_block"} =>
        \A i \in 1..3 :
            /\ last_op.chunk_pos[i] * 16 + last_op.local_pos[i] = last_op.pos[i]
            /\ 0 <= last_op.local_pos[i]
            /\ last_op.local_pos[i] < 16
            /\ last_op.pos[i] = -3 =>
                  last_op.chunk_pos[i] = -1 /\ last_op.local_pos[i] = 13

\* a negative coordinate that is not a multiple of the chunk size
C10_Witness ==
    /\ last_op.op = "convert"
    /\ last_op.pos = <<-17, 5, -3>>
    /\ last_op.chunk_pos = <<-2, 0, -1>>
    /\ last_op.local_pos = <<15, 5, 13>>

\* floor(v / d) for a position v given in units of 1/FocusScale
FloorOf(v, d) == v \div (FocusScale * d)

\* C11: the focus chunk that load_chunks_around derives from a focus
\* position p is floor(p / 16) on each axis, also for a negative p that is
\* not a whole number, and it is the chunk World.get_block uses for the
\* voxel floor(p).
C11_FocusChunkFloors ==
    last_op.op = "load" =>
        /\ \A i \in 1..3 : last_op.chunk_pos[i] = FloorOf(last_op.pos[i], CHUNK_SIZE)
        /\ last_op.chunk_pos = ChunkOf(<<FloorOf(last_op.pos[1], 1),
                                         FloorOf(last_op.pos[2], 1),
                                         FloorOf(last_op.pos[3], 1)>>)

\* the block next to a cell across one face, read as the claim describes it:
\* in the chunk itself, or at the wrapped coordinate of the chunk on that
\* face, AIR when that chunk is not loaded
AdjacentBlock(world_chunks, chunk_pos, local, face) ==
    LET n == Add3(local, FACE_DIRECTIONS[face])
        beyond == Add3(chunk_pos, FACE_DIRECTIONS[face])
    IN  IF InRange(n) THEN world_chunks[chunk_pos].blocks[n]
        ELSE IF beyond \notin DOMAIN world_chunks THEN AIR
        ELSE world_chunks[beyond].blocks[<<n[1] % CHUNK_SIZE, n[2] % CHUNK_SIZE,
                                           n[3] % CHUNK_SIZE>>]

\* every tracked block of a loaded chunk is solid
FullySolid(world_chunks, chunk_pos) ==
    /\ chunk_pos \in DOMAIN world_chunks
    /\ \A l \in DOMAIN world_chunks[chunk_pos].blocks :
          world_chunks[chunk_pos].blocks[l] # AIR

\* a chunk and its six face-neighbours are loaded and solid
SolidAllRound(world_chunks, chunk_pos) ==
    /\ FullySolid(world_chunks, chunk_pos)
    /\ \A face \in Face : FullySolid(world_chunks, Add3(chunk_pos, FACE_DIRECTIONS[face]))

\* a set_block call has just rebuilt the mesh of a chunk tracked whole
RebuiltWhole ==
    /\ last_op.op = "set_block"
    /\ last_op.ok
    /\ last_op.chunk_pos \in MeshCenters

\* C12: when generate_mesh has just run on a dirty chunk, the mesh holds the
\* face of block b in direction d exactly when b is not AIR and the block
\* next to it in direction d is AIR, a block outside the chunk being read in
\* the neighbouring chunk and AIR when that chunk is not loaded; a solid
\* chunk whose six neighbours are loaded and solid gets no vertex at all.
C12_MeshFaceRule ==
    RebuiltWhole =>
        LET chunk == chunks[last_op.chunk_pos]
        IN  /\ ~chunk.mesh_dirty
            /\ \A local \in AllLocals, face \in Face :
                  (<<local, face>> \in chunk.mesh)
                  <=> /\ chunk.blocks[local] # AIR
                      /\ AdjacentBlock(chunks, last_op.chunk_pos, local, face) = AIR
            /\ SolidAllRound(chunks, last_op.chunk_pos)
                  => chunk.mesh = {} /\ chunk.model.vertices = <<>>

\* the mesh of a solid chunk among six loaded solid neighbours was rebuilt
C12_Witness ==
    /\ RebuiltWhole
    /\ last_op.kind = STONE
    /\ SolidAllRound(chunks, last_op.chunk_pos)
    /\ chunks[last_op.chunk_pos].model = NoModel

\* the cells of a chunk that hold a block
SolidCells(chunk) == {l \in DOMAIN chunk.blocks : chunk.blocks[l] # AIR}

\* C13: the buffers of every built mesh hold 4 vertices, 4 UV pairs and 6
\* indices per emitted face, the indices of the k-th face (k from 0) being
\* 4k + (0, 1, 2, 0, 2, 3); one solid block whose six neighbours are AIR
\* gives 24 vertices and 36 indices.
C13_BufferLayout ==
    /\ \A chunk_pos \in DOMAIN chunks :
          LET chunk == chunks[chunk_pos]
              n == Cardinality(chunk.mesh)
          IN  ~chunk.mesh_dirty =>
                /\ Len(chunk.model.vertices) = 4 * n
                /\ Len(chunk.model.uvs) = 4 * n
                /\ Len(chunk.model.triangles) = 6 * n
                /\ \A k \in 0..(n - 1), i \in 1..6 :
                      chunk.model.triangles[6 * k + i] = 4 * k + QUAD_INDICES[i]
    /\ RebuiltWhole =>
          LET chunk == chunks[last_op.chunk_pos]
          IN  (/\ SolidCells(chunk) = {last_op.local_pos}
               /\ \A face \in Face :
                     AdjacentBlock(chunks, last_op.chunk_pos, last_op.local_pos, face) = AIR)
              => /\ Len(chunk.model.vertices) = 24
                 /\ Len(chunk.model.triangles) = 36

\* a single block was placed in an empty chunk and its mesh has six faces
C13_Witness ==
    /\ RebuiltWhole
    /\ last_op.kind = GRASS
    /\ SolidCells(chunks[last_op.chunk_pos]) = {last_op.local_pos}
    /\ Cardinality(chunks[last_op.chunk_pos].mesh) = 6
    /\ Len(chunks[last_op.chunk_pos].model.vertices) = 24

\* a raycast_block call has just returned
Cast == last_op.op = "raycast_block"

\* the point of the ray at parameter t lies in the closed cube of the voxel
OnRay(voxel, origin, direction, t) ==
    \A k \in 1..3 :
        LET at == origin[k] * TScale(direction) + t * direction[k]
            unit == FocusScale * TScale(direction)
        IN  voxel[k] * unit <= at /\ at <= (voxel[k] + 1) * unit

\* the voxels differ by one unit on one axis and not at all on the others
FaceAdjacent(a, b) ==
    /\ Cardinality({k \in 1..3 : a[k] # b[k]}) = 1
    /\ \A k \in 1..3 : Abs(a[k] - b[k]) <= 1

\* the reads of a cast are a voxel walk along the ray from floor(origin):
\* each voxel holds the ray point at which it was entered, each is
\* face-adjacent to the one before, every one but a hit is AIR
ReadsFollowRay ==
    LET r == last_op.ray
        n == Len(r.reads)
    IN  /\ n > 0 => r.reads[1] = floor_origin(last_op.pos)
        /\ \A i \in 1..n :
              /\ OnRay(r.reads[i], last_op.pos, last_op.direction, r.entered[i])
              /\ TraveledBelow(TFin(r.entered[i]), last_op.direction,
                               last_op.max_distance)
              /\ i > 1 => FaceAdjacent(r.reads[i], r.reads[i - 1])
              /\ (i < n \/ ~r.found) => World_get_block(chunks, r.reads[i]) = AIR

\* the world of the raycast example: one chunk's only solid block
ExampleWorld ==
    /\ ChunkOf(ExampleBlock) \in DOMAIN chunks
    /\ \A l \in AllLocals :
          chunks[ChunkOf(ExampleBlock)].blocks[l] # AIR <=> l = LocalOf(ExampleBlock)

\* C14: raycast_block returns the first non-AIR voxel of the walk from
\* floor(origin) that is entered below max_distance, paired with the voxel
\* visited immediately before it, and None when there is no such voxel; from
\* (0.5, 10, 0.5) straight down with (0, 3, 0) the only solid block and the
\* default reach it returns hit (0, 3, 0) and previous (0, 4, 0).
C14_FirstSolidAndPredecessor ==
    (Cast /\ last_op.direction # <<0, 0, 0>>) =>
        LET r == last_op.ray
            n == Len(r.reads)
        IN  /\ ReadsFollowRay
            /\ r.found =>
                  /\ r.hit = r.reads[n]
                  /\ World_get_block(chunks, r.hit) # AIR
                  /\ n > 1
                  /\ r.previous = r.reads[n - 1]
            /\ ~r.found =>
                  ~TraveledBelow(r.traveled, last_op.direction, last_op.max_distance)
            /\ (/\ ExampleWorld
                /\ last_op.pos = ExampleOrigin
                /\ last_op.direction = <<0, -1, 0>>
                /\ last_op.max_distance = DefaultReach)
               => /\ r.found
                  /\ r.hit = ExampleBlock
                  /\ r.previous = Add3(ExampleBlock, <<0, 1, 0>>)

\* C15: whenever raycast_block returns (hit, previous), from any origin,
\* one inside a solid block included, previous is an AIR voxel that differs
\* from hit by one unit on one axis, so a block placed at previous replaces
\* no block and touches hit.
C15_PreviousEmptyAdjacent ==
    (Cast /\ last_op.ray.found) =>
        /\ World_get_block(chunks, last_op.ray.previous) = AIR
        /\ FaceAdjacent(last_op.ray.hit, last_op.ray.previous)

\* C16: every step of the walk goes along an axis whose t_max is the
\* smallest, and among axes that tie for the smallest it takes x before y
\* before z.
C16_TieOrder ==
    Cast =>
        \A j \in 1..Len(last_op.ray.axes) :
            LET t == last_op.ray.t_before[j]
                axis == last_op.ray.axes[j]
            IN  /\ \A k \in 1..3 : ~TLess(t[k], t[axis])
                /\ \A k \in 1..(axis - 1) : TLess(t[axis], t[k])

\* the axes the ray does not move along
ZeroAxes(direction) == {k \in 1..3 : direction[k] = 0}

\* C17: a zero-length direction returns None with no block read and the
\* world as it was; for a direction with one or two zero components those
\* axes have an infinite first crossing and an infinite step, and every
\* voxel of the walk keeps floor(origin) on them.
C17_DegenerateDirections ==
    [][(last_op'.op = "raycast_block") =>
          LET r == last_op'.ray
              direction == last_op'.direction
              start == floor_origin(last_op'.pos)
          IN  /\ chunks' = chunks
              /\ chunk_load_queue' = chunk_load_queue
              /\ direction = <<0, 0, 0>> => ~r.found /\ r.reads = <<>>
              /\ direction # <<0, 0, 0>> =>
                    \A k \in ZeroAxes(direction) :
                        /\ r.t_max[k].inf
                        /\ r.t_delta[k].inf
                        /\ \A i \in 1..Len(r.reads) : r.reads[i][k] = start[k]
                        /\ \A j \in 1..Len(r.axes) : r.axes[j] # k
                        /\ r.found => r.hit[k] = start[k] /\ r.previous[k] = start[k]]_vars

\* a ray with a zero component walked several voxels of a loaded world
C17_Witness ==
    /\ Cast
    /\ last_op.direction # <<0, 0, 0>>
    /\ ZeroAxes(last_op.direction) # {}
    /\ Len(last_op.ray.axes) >= 3
    /\ ChunkOf(last_op.ray.reads[1]) \in DOMAIN chunks

\* a generate_chunk call on its own has just returned or raised
Generated == last_op.op = "generate_chunk"

\* what a World that has loaded nothing makes of a chunk coordinate
FreshChunk(chunk_pos) == generate_chunk(<<>>, chunk_pos)

FillKind(wy, h) ==
    CASE wy > h -> AIR
      [] wy = h -> GRASS
      [] h - 3 <= wy /\ wy < h -> DIRT
      [] wy < h - 3 -> STONE

\* the blocks of a chunk at chunk_pos follow the fill rule
FilledByRule(chunk_pos, blocks) ==
    \A l \in DOMAIN blocks :
        blocks[l] = FillKind(CHUNK_SIZE * chunk_pos[2] + l[2],
                             get_terrain_height(CHUNK_SIZE * chunk_pos[1] + l[1],
                                                CHUNK_SIZE * chunk_pos[3] + l[3]))

KindMapped(name) ==
    /\ name \in DOMAIN BlockTypeMembers
    /\ BlockTypeMembers[name] \in BlockType \ {AIR}
    /\ BlockTypeMembers[name] \in DOMAIN BLOCK_TEXTURES
    /\ \A f \in Face :
          LET i == BLOCK_TEXTURES[BlockTypeMembers[name]][f]
          IN  /\ i \in 0..(ATLAS_WIDTH - 1)
              /\ get_block_uvs(BlockTypeMembers[name], f) = <<i, 0, i + 1, 1>>

\* C21: every block kind the program can write into a chunk (GRASS, DIRT,
\* STONE, trunk WOOD, canopy LEAVES) is a member of BlockType, whose AIR is
\* 0; every such kind has for each of the six faces an atlas slot in
\* 0..ATLAS_WIDTH-1 with UV rectangle (i/N, 0, (i+1)/N, 1), and AIR has the
\* rectangle (0,0,0,0); so every generate_chunk call completes, its mesh
\* built.
C21_KindsMappedGenerationCompletes ==
    Generated =>
        /\ BlockTypeMembers.AIR = 0
        /\ \A f \in Face : get_block_uvs(AIR, f) = <<0, 0, 0, 0>>
        /\ \A name \in KindsWritten : KindMapped(name)
        /\ last_op.ok

\* a load_chunks_around call has returned
Loaded == last_op.op = "load" /\ last_op.ok

\* C23: when a load_chunks_around call returns, no loaded chunk lies outside
\* the required box of that call's focus chunk: every chunk the call
\* generated is in the box, and a coordinate queued under an earlier focus
\* that is no longer required has not been generated.
C23_GeneratedInsideBox ==
    Loaded => DOMAIN chunks \subseteq chunks_to_load(last_op.chunk_pos)

\* no coordinate occurs twice in the queue
NoDuplicates(queue) ==
    \A i, j \in 1..Len(queue) : queue[i] = queue[j] => i = j

\* C24: in every reachable state the pending queue holds no coordinate
\* twice and no coordinate that is loaded, and each loaded chunk's chunk_pos
\* is its key in the map; each entry a call drains generates exactly one
\* chunk, and no call replaces a chunk that is loaded and stays loaded.
C24_QueueDistinctUnloaded ==
    /\ [](/\ NoDuplicates(chunk_load_queue)
          /\ SeqRange(chunk_load_queue) \cap DOMAIN chunks = {}
          /\ \A pos \in DOMAIN chunks : chunks[pos].chunk_pos = pos
          /\ Loaded => last_op.generated = last_op.popped)
    /\ [][\A pos \in DOMAIN chunks \cap DOMAIN chunks' :
             chunks'[pos] = chunks[pos]]_vars

\* a later call after a move of the focus found required coordinates already
\* queued, queued the others behind them and drained two entries
C24_Witness ==
    /\ Loaded
    /\ ~last_op.first
    /\ last_op.chunk_changed
    /\ last_op.popped = 2
    /\ last_op.generated = 2
    /\ Len(chunk_load_queue) + last_op.popped > last_op.queued_before
    /\ \E i \in 1..last_op.queued_before - 2 :
          chunk_load_queue[i] \in chunks_to_load(last_player_chunk)

\* C25: after every load_chunks_around call returns, each coordinate of the
\* required box around that call's focus chunk is loaded or is in the
\* pending queue, whatever moves of the focus, evictions and partial drains
\* came before.
C25_RequiredLoadedOrQueued ==
    Loaded =>
        \A pos \in chunks_to_load(last_op.chunk_pos) :
            pos \in DOMAIN chunks \/ pos \in SeqRange(chunk_load_queue)

\* a later call after a move of the focus evicted chunks and returned with
\* required coordinates still unloaded, queued behind entries of an earlier
\* focus that its box does not hold
C25_Witness ==
    /\ Loaded
    /\ ~last_op.first
    /\ last_op.chunk_changed
    /\ last_op.evicted > 0
    /\ last_op.generated = chunks_per_frame
    /\ chunk_load_queue # <<>>
    /\ chunk_load_queue[1] \notin chunks_to_load(last_op.chunk_pos)
    /\ \E pos \in chunks_to_load(last_op.chunk_pos) : pos \notin DOMAIN chunks

\* a later call with the focus where it was, made while work was pending
HeldCall ==
    /\ Loaded
    /\ ~last_op.first
    /\ ~last_op.chunk_changed
    /\ ~last_op.noop

\* C22: once the focus chunk stays the same, each further call takes two
\* entries (or the last one) off the pending queue, so after at most one
\* call per 2 queued entries, plus one, the queue is empty and every
\* coordinate of the required box is loaded, and from then on every call
\* with that focus returns early; streaming never stops with a required
\* chunk neither loaded nor generated.
C22_StreamingCompletes ==
    /\ [](HeldCall =>
            Len(chunk_load_queue) =
                IF last_op.queued_before > chunks_per_frame
                THEN last_op.queued_before - chunks_per_frame ELSE 0)
    /\ <>[]Steady

====
